---- MODULE Spec2Model ----
(***************************************************************************)
(* Model of the LeadConnector calendar handlers:                           *)
(*   calendars/leadconnector/leadconnector.py  (get-available-times)       *)
(*   calendars/leadconnector/book.py           (book appointment)          *)
(* Text is a sequence of one-character strings, an instant is a number of  *)
(* minutes since 1970-01-01T00:00Z together with a UTC offset in minutes.  *)
(***************************************************************************)
EXTENDS Integers, Sequences, FiniteSets, TLC

(***************************************************************************)
(* Characters and text                                                     *)
(***************************************************************************)
Digit == {"0", "1", "2", "3", "4", "5", "6", "7", "8", "9"}

LowerLetter == {"a", "b", "c", "d", "e", "f", "g", "h", "i", "j", "k", "l", "m",
                "n", "o", "p", "q", "r", "s", "t", "u", "v", "w", "x", "y", "z"}

UpperLetter == {"A", "B", "C", "D", "E", "F", "G", "H", "I", "J", "K", "L", "M",
                "N", "O", "P", "Q", "R", "S", "T", "U", "V", "W", "X", "Y", "Z"}

UpperOf == [c \in LowerLetter |->
              CASE c = "a" -> "A" [] c = "b" -> "B" [] c = "c" -> "C" [] c = "d" -> "D"
                [] c = "e" -> "E" [] c = "f" -> "F" [] c = "g" -> "G" [] c = "h" -> "H"
                [] c = "i" -> "I" [] c = "j" -> "J" [] c = "k" -> "K" [] c = "l" -> "L"
                [] c = "m" -> "M" [] c = "n" -> "N" [] c = "o" -> "O" [] c = "p" -> "P"
                [] c = "q" -> "Q" [] c = "r" -> "R" [] c = "s" -> "S" [] c = "t" -> "T"
                [] c = "u" -> "U" [] c = "v" -> "V" [] c = "w" -> "W" [] c = "x" -> "X"
                [] c = "y" -> "Y" [] c = "z" -> "Z"]

DigitVal == [c \in Digit |->
               CASE c = "0" -> 0 [] c = "1" -> 1 [] c = "2" -> 2 [] c = "3" -> 3
                 [] c = "4" -> 4 [] c = "5" -> 5 [] c = "6" -> 6 [] c = "7" -> 7
                 [] c = "8" -> 8 [] c = "9" -> 9]

\* the character at position i, or "" outside the text
At(s, i) == IF i >= 1 /\ i <= Len(s) THEN s[i] ELSE ""

IsDigit(c) == c \in Digit

\* regex \w
IsWordChar(c) == c \in Digit \/ c \in LowerLetter \/ c \in UpperLetter \/ c = "_"

\* regex \s and str.strip()
IsSpace(c) == c \in {" ", "\t", "\n"}

Up(c) == IF c \in LowerLetter THEN UpperOf[c] ELSE c

Upper(s) == [i \in 1..Len(s) |-> Up(s[i])]

\* the part of s from position i to position j (empty when j < i)
Slice(s, i, j) == IF j < i THEN <<>> ELSE SubSeq(s, i, j)

\* regex \b before position i
WB(s, i) == IsWordChar(At(s, i - 1)) # IsWordChar(At(s, i))

\* s has the text t (compared without case) starting at position i
HasAtCI(s, i, t) ==
    /\ i >= 1
    /\ i + Len(t) - 1 <= Len(s)
    /\ \A k \in 1..Len(t) : Up(s[i + k - 1]) = Up(t[k])

IsMeridiemAt(s, i) == HasAtCI(s, i, <<"A", "M">>) \/ HasAtCI(s, i, <<"P", "M">>)

\* the first position at or after i that holds no digit
RECURSIVE DigitRunEnd(_, _)
DigitRunEnd(s, i) == IF IsDigit(At(s, i)) THEN DigitRunEnd(s, i + 1) ELSE i

\* the first position at or after i that holds no whitespace
RECURSIVE SpaceRunEnd(_, _)
SpaceRunEnd(s, i) == IF IsSpace(At(s, i)) THEN SpaceRunEnd(s, i + 1) ELSE i

\* the last position at or before i that holds no whitespace
RECURSIVE SpaceRunStart(_, _)
SpaceRunStart(s, i) == IF IsSpace(At(s, i)) THEN SpaceRunStart(s, i - 1) ELSE i

\* str.strip()
Strip(s) == Slice(s, SpaceRunEnd(s, 1), SpaceRunStart(s, Len(s)))

(***************************************************************************)
(* parse_human_datetime, steps 1-7: the repair of the text                 *)
(***************************************************************************)
\* 1) re.sub(r"\s+", " ", s)
RECURSIVE CollapseFrom(_, _)
CollapseFrom(s, i) ==
    IF i > Len(s) THEN <<>>
    ELSE IF IsSpace(s[i]) THEN <<" ">> \o CollapseFrom(s, SpaceRunEnd(s, i))
    ELSE <<s[i]>> \o CollapseFrom(s, i + 1)

NormalizeWhitespace(s) == Strip(CollapseFrom(s, 1))

\* 2) re.sub(r"(\d+)(st|nd|rd|th)", r"\1", s, IGNORECASE)
IsOrdinalAt(s, i) ==
    \/ HasAtCI(s, i, <<"s", "t">>)
    \/ HasAtCI(s, i, <<"n", "d">>)
    \/ HasAtCI(s, i, <<"r", "d">>)
    \/ HasAtCI(s, i, <<"t", "h">>)

RECURSIVE OrdinalsFrom(_, _)
OrdinalsFrom(s, i) ==
    IF i > Len(s) THEN <<>>
    ELSE IF IsDigit(s[i]) /\ IsOrdinalAt(s, DigitRunEnd(s, i))
         THEN Slice(s, i, DigitRunEnd(s, i) - 1) \o OrdinalsFrom(s, DigitRunEnd(s, i) + 2)
    ELSE <<s[i]>> \o OrdinalsFrom(s, i + 1)

RemoveOrdinals(s) == OrdinalsFrom(s, 1)

\* 3) s.replace(",", "")
RemoveCommas(s) == SelectSeq(s, LAMBDA c : c # ",")

\* 4) re.sub(r"(\d)(AM|PM)\b", r"\1 \2", s, IGNORECASE)
RECURSIVE MeridiemSpaceFrom(_, _)
MeridiemSpaceFrom(s, i) ==
    IF i > Len(s) THEN <<>>
    ELSE IF IsDigit(s[i]) /\ IsMeridiemAt(s, i + 1) /\ WB(s, i + 3)
         THEN <<s[i], " ", s[i + 1], s[i + 2]>> \o MeridiemSpaceFrom(s, i + 3)
    ELSE <<s[i]>> \o MeridiemSpaceFrom(s, i + 1)

SpaceBeforeMeridiem(s) == MeridiemSpaceFrom(s, 1)

\* \d{1,2} at position i: the number of digits taken (2 is tried before 1), or
\* 0 when neither fits; after2 and after1 say whether the rest of the pattern
\* matches behind two digits and behind one
HourDigits(s, i, after2, after1) ==
    IF IsDigit(At(s, i)) /\ IsDigit(At(s, i + 1)) /\ after2 THEN 2
    ELSE IF IsDigit(At(s, i)) /\ after1 THEN 1
    ELSE 0

\* " \d{2} (AM|PM)\b" at position i
MinutesThenMeridiem(s, i) ==
    /\ At(s, i) = " "
    /\ IsDigit(At(s, i + 1)) /\ IsDigit(At(s, i + 2))
    /\ At(s, i + 3) = " "
    /\ IsMeridiemAt(s, i + 4)
    /\ WB(s, i + 6)

\* 5) re.sub(r"\b(\d{1,2}) (\d{2}) (AM|PM)\b", r"\1:\2 \3", s, IGNORECASE)
RECURSIVE ColonFrom(_, _)
ColonFrom(s, i) ==
    IF i > Len(s) THEN <<>>
    ELSE LET n == IF WB(s, i) THEN HourDigits(s, i, MinutesThenMeridiem(s, i + 2),
                                                 MinutesThenMeridiem(s, i + 1)) ELSE 0
         IN  IF n > 0
             THEN Slice(s, i, i + n - 1) \o <<":">> \o Slice(s, i + n + 1, i + n + 5)
                  \o ColonFrom(s, i + n + 6)
             ELSE <<s[i]>> \o ColonFrom(s, i + 1)

InsertColon(s) == ColonFrom(s, 1)

\* " (AM|PM)\b" at position i
SpaceThenMeridiem(s, i) ==
    /\ At(s, i) = " "
    /\ IsMeridiemAt(s, i + 1)
    /\ WB(s, i + 3)

\* step 6 as it would be without the leading \b: r"(\d{1,2}) (AM|PM)\b"
RECURSIVE HourOnlyFromNoBoundary(_, _)
HourOnlyFromNoBoundary(s, i) ==
    IF i > Len(s) THEN <<>>
    ELSE LET n == HourDigits(s, i, SpaceThenMeridiem(s, i + 2), SpaceThenMeridiem(s, i + 1))
         IN  IF n > 0
             THEN Slice(s, i, i + n - 1) \o <<":", "0", "0", " ">>
                  \o Slice(s, i + n + 1, i + n + 2) \o HourOnlyFromNoBoundary(s, i + n + 3)
             ELSE <<s[i]>> \o HourOnlyFromNoBoundary(s, i + 1)

\* 6) re.sub(r"\b(\d{1,2}) (AM|PM)\b", r"\1:00 \2", s, IGNORECASE)
RECURSIVE HourOnlyFrom(_, _)
HourOnlyFrom(s, i) ==
    IF i > Len(s) THEN <<>>
    ELSE LET n == IF WB(s, i) THEN HourDigits(s, i, SpaceThenMeridiem(s, i + 2),
                                                 SpaceThenMeridiem(s, i + 1)) ELSE 0
         IN  IF n > 0
             THEN Slice(s, i, i + n - 1) \o <<":", "0", "0", " ">>
                  \o Slice(s, i + n + 1, i + n + 2) \o HourOnlyFrom(s, i + n + 3)
             ELSE <<s[i]>> \o HourOnlyFrom(s, i + 1)

ExpandHourOnly(s) == HourOnlyFrom(s, 1)

\* ":\d{2} (AM|PM)" at position i
ColonMinutesMeridiem(s, i) ==
    /\ At(s, i) = ":"
    /\ IsDigit(At(s, i + 1)) /\ IsDigit(At(s, i + 2))
    /\ At(s, i + 3) = " "
    /\ IsMeridiemAt(s, i + 4)

\* 7) re.sub(r"(\d{4}) (\d{1,2}:\d{2} (AM|PM))", r"\1 at \2", s, IGNORECASE)
RECURSIVE AtFrom(_, _)
AtFrom(s, i) ==
    IF i > Len(s) THEN <<>>
    ELSE LET year == /\ \A k \in 0..3 : IsDigit(At(s, i + k))
                     /\ At(s, i + 4) = " "
             n    == IF year THEN HourDigits(s, i + 5, ColonMinutesMeridiem(s, i + 7),
                                                     ColonMinutesMeridiem(s, i + 6)) ELSE 0
         IN  IF n > 0
             THEN Slice(s, i, i + 4) \o <<"a", "t", " ">> \o Slice(s, i + 5, i + n + 10)
                  \o AtFrom(s, i + n + 11)
             ELSE <<s[i]>> \o AtFrom(s, i + 1)

InsertAt(s) == AtFrom(s, 1)

\* lines 33-57: the repaired text
Normalized(s) ==
    InsertAt(ExpandHourOnly(InsertColon(SpaceBeforeMeridiem(
        RemoveCommas(RemoveOrdinals(NormalizeWhitespace(s)))))))

(***************************************************************************)
(* parse_human_datetime, lines 61-103: the trailing timezone token         *)
(***************************************************************************)
full_tz_map ==
    <<[token |-> <<"P", "A", "C", "I", "F", "I", "C", " ", "S", "T", "A", "N", "D", "A", "R", "D", " ", "T", "I", "M", "E">>,
       zone |-> "America/Los_Angeles"],
      [token |-> <<"P", "A", "C", "I", "F", "I", "C", " ", "D", "A", "Y", "L", "I", "G", "H", "T", " ", "T", "I", "M", "E">>,
       zone |-> "America/Los_Angeles"],
      [token |-> <<"M", "O", "U", "N", "T", "A", "I", "N", " ", "S", "T", "A", "N", "D", "A", "R", "D", " ", "T", "I", "M", "E">>,
       zone |-> "America/Denver"],
      [token |-> <<"M", "O", "U", "N", "T", "A", "I", "N", " ", "D", "A", "Y", "L", "I", "G", "H", "T", " ", "T", "I", "M", "E">>,
       zone |-> "America/Denver"],
      [token |-> <<"C", "E", "N", "T", "R", "A", "L", " ", "S", "T", "A", "N", "D", "A", "R", "D", " ", "T", "I", "M", "E">>,
       zone |-> "America/Chicago"],
      [token |-> <<"C", "E", "N", "T", "R", "A", "L", " ", "D", "A", "Y", "L", "I", "G", "H", "T", " ", "T", "I", "M", "E">>,
       zone |-> "America/Chicago"],
      [token |-> <<"E", "A", "S", "T", "E", "R", "N", " ", "S", "T", "A", "N", "D", "A", "R", "D", " ", "T", "I", "M", "E">>,
       zone |-> "America/New_York"],
      [token |-> <<"E", "A", "S", "T", "E", "R", "N", " ", "D", "A", "Y", "L", "I", "G", "H", "T", " ", "T", "I", "M", "E">>,
       zone |-> "America/New_York"]>>

abbrev_map ==
    <<[token |-> <<"P", "S", "T">>, zone |-> "America/Los_Angeles"],
      [token |-> <<"P", "D", "T">>, zone |-> "America/Los_Angeles"],
      [token |-> <<"M", "S", "T">>, zone |-> "America/Denver"],
      [token |-> <<"M", "D", "T">>, zone |-> "America/Denver"],
      [token |-> <<"C", "S", "T">>, zone |-> "America/Chicago"],
      [token |-> <<"C", "D", "T">>, zone |-> "America/Chicago"],
      [token |-> <<"E", "S", "T">>, zone |-> "America/New_York"],
      [token |-> <<"E", "D", "T">>, zone |-> "America/New_York"]>>

\* the alternatives of tz_regex, in the order the pattern lists them
tz_regex == full_tz_map \o abbrev_map

EndsWithCI(s, t) == Len(t) <= Len(s) /\ HasAtCI(s, Len(s) - Len(t) + 1, t)

\* the alternatives that match somewhere in s: tz_regex without its "$"
TzMatchesAnywhere(s) ==
    {x \in 1..Len(tz_regex) : \E i \in 1..Len(s) : HasAtCI(s, i, tz_regex[x].token)}

\* re.search(tz_regex, s, IGNORECASE): the alternatives that match up to "$"
TzMatches(s) == {x \in 1..Len(tz_regex) : EndsWithCI(s, tz_regex[x].token)}

\* the match re.search returns: the one starting leftmost, and among those
\* the alternative listed first
TzMatch(s) ==
    CHOOSE x \in TzMatches(s) :
        \A y \in TzMatches(s) :
            \/ Len(tz_regex[y].token) < Len(tz_regex[x].token)
            \/ (Len(tz_regex[y].token) = Len(tz_regex[x].token) /\ x <= y)

\* tz_raw = tz_match.group(0).upper()
TzRaw(s) ==
    Upper(Slice(s, Len(s) - Len(tz_regex[TzMatch(s)].token) + 1, Len(s)))

\* lines 97-100: full_tz_map[tz_raw] if present, else abbrev_map[tz_raw]
TzName(tz_raw) ==
    IF \E x \in 1..Len(full_tz_map) : full_tz_map[x].token = tz_raw
    THEN full_tz_map[CHOOSE x \in 1..Len(full_tz_map) : full_tz_map[x].token = tz_raw].zone
    ELSE abbrev_map[CHOOSE x \in 1..Len(abbrev_map) : abbrev_map[x].token = tz_raw].zone

\* line 103: re.sub(tz_regex, "", s, IGNORECASE).strip()
StripTimezone(s) ==
    Strip(Slice(s, 1, Len(s) - Len(tz_regex[TzMatch(s)].token)))

(***************************************************************************)
(* datetime.strptime                                                       *)
(***************************************************************************)
WeekdayNames ==
    <<<<"M", "o", "n", "d", "a", "y">>,
      <<"T", "u", "e", "s", "d", "a", "y">>,
      <<"W", "e", "d", "n", "e", "s", "d", "a", "y">>,
      <<"T", "h", "u", "r", "s", "d", "a", "y">>,
      <<"F", "r", "i", "d", "a", "y">>,
      <<"S", "a", "t", "u", "r", "d", "a", "y">>,
      <<"S", "u", "n", "d", "a", "y">>>>

MonthNames ==
    <<<<"J", "a", "n", "u", "a", "r", "y">>,
      <<"F", "e", "b", "r", "u", "a", "r", "y">>,
      <<"M", "a", "r", "c", "h">>,
      <<"A", "p", "r", "i", "l">>,
      <<"M", "a", "y">>,
      <<"J", "u", "n", "e">>,
      <<"J", "u", "l", "y">>,
      <<"A", "u", "g", "u", "s", "t">>,
      <<"S", "e", "p", "t", "e", "m", "b", "e", "r">>,
      <<"O", "c", "t", "o", "b", "e", "r">>,
      <<"N", "o", "v", "e", "m", "b", "e", "r">>,
      <<"D", "e", "c", "e", "m", "b", "e", "r">>>>

\* %b: the abbreviated month names
MonthAbbrevs == [x \in 1..Len(MonthNames) |-> Slice(MonthNames[x], 1, 3)]

\* the fields a format fills, with strptime's defaults
StrpDefaults == [ok |-> TRUE, Y |-> 1900, m |-> 1, d |-> 1, I |-> 0, M |-> 0, p |-> "AM"]

StrpFail == [StrpDefaults EXCEPT !.ok = FALSE]

Num2(s, i) == 10 * DigitVal[s[i]] + DigitVal[s[i + 1]]

Num4(s, i) == 100 * Num2(s, i) + Num2(s, i + 2)

TwoDigits(s, i) == IsDigit(At(s, i)) /\ IsDigit(At(s, i + 1))

\* the ordered alternatives of a numeric directive at position i:
\* n characters taken, v the value, ok whether the alternative matches
NumberAlternatives(item, s, i) ==
    CASE item = "%d" ->   \* 3[0-1]|[1-2]\d|0[1-9]|[1-9]| [1-9]
           <<[n |-> 2, ok |-> TwoDigits(s, i) /\ Num2(s, i) \in 1..31,
              v |-> IF TwoDigits(s, i) THEN Num2(s, i) ELSE 0],
             [n |-> 1, ok |-> IsDigit(At(s, i)) /\ At(s, i) # "0",
              v |-> IF IsDigit(At(s, i)) THEN DigitVal[s[i]] ELSE 0],
             [n |-> 2, ok |-> At(s, i) = " " /\ IsDigit(At(s, i + 1)) /\ At(s, i + 1) # "0",
              v |-> IF IsDigit(At(s, i + 1)) THEN DigitVal[s[i + 1]] ELSE 0]>>
      [] item \in {"%m", "%I"} ->   \* 1[0-2]|0[1-9]|[1-9]
           <<[n |-> 2, ok |-> TwoDigits(s, i) /\ Num2(s, i) \in 1..12,
              v |-> IF TwoDigits(s, i) THEN Num2(s, i) ELSE 0],
             [n |-> 1, ok |-> IsDigit(At(s, i)) /\ At(s, i) # "0",
              v |-> IF IsDigit(At(s, i)) THEN DigitVal[s[i]] ELSE 0]>>
      [] item = "%M" ->   \* [0-5]\d|\d
           <<[n |-> 2, ok |-> TwoDigits(s, i) /\ Num2(s, i) \in 0..59,
              v |-> IF TwoDigits(s, i) THEN Num2(s, i) ELSE 0],
             [n |-> 1, ok |-> IsDigit(At(s, i)),
              v |-> IF IsDigit(At(s, i)) THEN DigitVal[s[i]] ELSE 0]>>
      [] item = "%Y" ->   \* \d\d\d\d
           <<[n |-> 4, ok |-> TwoDigits(s, i) /\ TwoDigits(s, i + 2),
              v |-> IF TwoDigits(s, i) /\ TwoDigits(s, i + 2) THEN Num4(s, i) ELSE 0]>>

SetField(acc, item, v) ==
    CASE item = "%d" -> [acc EXCEPT !.d = v]
      [] item = "%m" -> [acc EXCEPT !.m = v]
      [] item = "%I" -> [acc EXCEPT !.I = v]
      [] item = "%M" -> [acc EXCEPT !.M = v]
      [] item = "%Y" -> [acc EXCEPT !.Y = v]

NamesOf(item) ==
    CASE item = "%A" -> WeekdayNames
      [] item = "%B" -> MonthNames
      [] item = "%b" -> MonthAbbrevs

\* The regular expression strptime builds from fmt, matched against s from
\* position i with the fields found so far: StrpFrom matches the items from
\* the k-th on; an item with alternatives takes the first alternative behind
\* which the rest of the format matches.
RECURSIVE StrpFrom(_, _, _, _, _)
RECURSIVE StrpSpaces(_, _, _, _, _, _)
RECURSIVE StrpNumber(_, _, _, _, _, _)
RECURSIVE StrpName(_, _, _, _, _, _)

\* \s+ ending before position j, the longest run first, no shorter than lo
StrpSpaces(fmt, k, s, j, lo, acc) ==
    IF j < lo THEN StrpFail
    ELSE CHOOSE out \in {IF r.ok THEN r ELSE StrpSpaces(fmt, k, s, j - 1, lo, acc) :
                           r \in {StrpFrom(fmt, k + 1, s, j, acc)}} : TRUE

\* the x-th alternative of a numeric directive, then the later ones
StrpNumber(fmt, k, s, i, acc, x) ==
    LET alts == NumberAlternatives(fmt[k], s, i)
    IN  IF x > Len(alts) THEN StrpFail
        ELSE IF ~alts[x].ok THEN StrpNumber(fmt, k, s, i, acc, x + 1)
        ELSE CHOOSE out \in {IF r.ok THEN r ELSE StrpNumber(fmt, k, s, i, acc, x + 1) :
                               r \in {StrpFrom(fmt, k + 1, s, i + alts[x].n,
                                               SetField(acc, fmt[k], alts[x].v))}} : TRUE

\* the x-th name of %A, %B or %b, then the later ones (no name of a list
\* begins another, so at most one is found at a position)
StrpName(fmt, k, s, i, acc, x) ==
    LET names == NamesOf(fmt[k])
    IN  IF x > Len(names) THEN StrpFail
        ELSE IF ~HasAtCI(s, i, names[x]) THEN StrpName(fmt, k, s, i, acc, x + 1)
        ELSE CHOOSE out \in {IF r.ok THEN r ELSE StrpName(fmt, k, s, i, acc, x + 1) :
                               r \in {StrpFrom(fmt, k + 1, s, i + Len(names[x]),
                                               IF fmt[k] = "%A" THEN acc
                                               ELSE [acc EXCEPT !.m = x])}} : TRUE

StrpFrom(fmt, k, s, i, acc) ==
    IF k > Len(fmt)
    THEN IF i = Len(s) + 1 THEN acc ELSE StrpFail   \* unconverted data remains
    ELSE CASE fmt[k] = " " -> StrpSpaces(fmt, k, s, SpaceRunEnd(s, i), i + 1, acc)
           [] fmt[k] \in {"%d", "%m", "%I", "%M", "%Y"} -> StrpNumber(fmt, k, s, i, acc, 1)
           [] fmt[k] \in {"%A", "%B", "%b"} -> StrpName(fmt, k, s, i, acc, 1)
           [] fmt[k] = "%p" ->   \* am|pm
                IF HasAtCI(s, i, <<"A", "M">>)
                THEN StrpFrom(fmt, k + 1, s, i + 2, [acc EXCEPT !.p = "AM"])
                ELSE IF HasAtCI(s, i, <<"P", "M">>)
                THEN StrpFrom(fmt, k + 1, s, i + 2, [acc EXCEPT !.p = "PM"])
                ELSE StrpFail
           [] OTHER ->   \* a literal character, compared without case
                IF At(s, i) # "" /\ Up(At(s, i)) = Up(fmt[k])
                THEN StrpFrom(fmt, k + 1, s, i + 1, acc)
                ELSE StrpFail

IsLeap(y) == y % 4 = 0 /\ (y % 100 # 0 \/ y % 400 = 0)

DaysInMonth(y, m) ==
    IF m = 2 THEN (IF IsLeap(y) THEN 29 ELSE 28)
    ELSE IF m \in {4, 6, 9, 11} THEN 30
    ELSE 31

NoDateTime == [ok |-> FALSE, y |-> 0, mo |-> 0, d |-> 0, h |-> 0, mi |-> 0]

\* datetime.strptime(s, fmt): the naive date and time, or ok = FALSE where
\* strptime raises ValueError
\* the date and time of the fields a format found; the datetime
\* constructor refuses a year 0 and a day the month has not
DateTimeOf(f) ==
    IF ~f.ok \/ f.Y < 1 \/ f.d > DaysInMonth(f.Y, f.m) THEN NoDateTime
    ELSE [ok |-> TRUE, y |-> f.Y, mo |-> f.m, d |-> f.d,
          h  |-> IF f.p = "AM" THEN (IF f.I = 12 THEN 0 ELSE f.I)
                 ELSE (IF f.I = 12 THEN 12 ELSE f.I + 12),
          mi |-> f.M]

strptime(s, fmt) == DateTimeOf(StrpFrom(fmt, 1, s, 1, StrpDefaults))

(***************************************************************************)
(* Dates, zones and instants (datetime, pytz)                              *)
(***************************************************************************)
MinutesPerDay == 1440

\* days from 1970-01-01 to the civil date y-m-d (proleptic Gregorian)
DaysFromCivil(y, m, d) ==
    LET y1  == IF m <= 2 THEN y - 1 ELSE y
        era == y1 \div 400
        yoe == y1 - era * 400
        mp  == IF m > 2 THEN m - 3 ELSE m + 9
        doy == (153 * mp + 2) \div 5 + d - 1
        doe == yoe * 365 + yoe \div 4 - yoe \div 100 + doy
    IN  era * 146097 + doe - 719468

\* the civil date of a day number
CivilFromDays(z) ==
    LET z1  == z + 719468
        era == z1 \div 146097
        doe == z1 - era * 146097
        yoe == (doe - doe \div 1460 + doe \div 36524 - doe \div 146096) \div 365
        doy == doe - (365 * yoe + yoe \div 4 - yoe \div 100)
        mp  == (5 * doy + 2) \div 153
        d   == doy - (153 * mp + 2) \div 5 + 1
        m   == IF mp < 10 THEN mp + 3 ELSE mp - 9
    IN  [y |-> yoe + era * 400 + (IF m <= 2 THEN 1 ELSE 0), mo |-> m, d |-> d]

\* date.weekday(): Monday is 0, Sunday is 6
Weekday(days) == (days + 3) % 7

\* the first Sunday on or after a day
SundayOnOrAfter(days) == days + (6 - Weekday(days))

\* the zones pytz knows here: the standard offset in minutes, whether the
\* zone keeps United States daylight time, and its two abbreviations
ZoneInfo(zone) ==
    CASE zone = "America/Los_Angeles" -> [std |-> -480, dst |-> TRUE, names |-> <<"PST", "PDT">>]
      [] zone = "America/Denver"      -> [std |-> -420, dst |-> TRUE, names |-> <<"MST", "MDT">>]
      [] zone = "America/Phoenix"     -> [std |-> -420, dst |-> FALSE, names |-> <<"MST", "MST">>]
      [] zone = "America/Chicago"     -> [std |-> -360, dst |-> TRUE, names |-> <<"CST", "CDT">>]
      [] zone = "America/New_York"    -> [std |-> -300, dst |-> TRUE, names |-> <<"EST", "EDT">>]

\* daylight time runs from the second Sunday of March, 02:00 standard time,
\* to the first Sunday of November, 01:00 standard time (minutes of
\* standard local time since 1970)
DstBegin(y) == SundayOnOrAfter(DaysFromCivil(y, 3, 8)) * MinutesPerDay + 120

DstEnd(y) == SundayOnOrAfter(DaysFromCivil(y, 11, 1)) * MinutesPerDay + 60

\* the UTC offset of a zone at an instant (tz.utcoffset after astimezone)
OffsetAt(zone, utc) ==
    LET z     == ZoneInfo(zone)
        local == utc + z.std
        y     == CivilFromDays(local \div MinutesPerDay).y
    IN  IF z.dst /\ local >= DstBegin(y) /\ local < DstEnd(y) THEN z.std + 60 ELSE z.std

\* an aware datetime: the instant and the offset of its zone at that instant
Aware(utc, off) == [utc |-> utc, off |-> off]

\* tz.localize(naive) with is_dst=False: a wall time that daylight time
\* skips or repeats is read as standard time
Localize(naive, zone) ==
    LET z    == ZoneInfo(zone)
        wall == DaysFromCivil(naive.y, naive.mo, naive.d) * MinutesPerDay
                + naive.h * 60 + naive.mi
        off  == IF z.dst /\ wall >= DstBegin(naive.y) + 60 /\ wall < DstEnd(naive.y)
                THEN z.std + 60 ELSE z.std
    IN  Aware(wall - off, off)

\* dt.astimezone(pytz zone)
AsZone(dt, zone) == Aware(dt.utc, OffsetAt(zone, dt.utc))

\* dt.astimezone(fixed offset), the tzinfo of a parsed ISO-8601 text
AsOffset(dt, off) == Aware(dt.utc, off)

\* the wall clock of an aware datetime, in minutes since 1970
Wall(dt) == dt.utc + dt.off

\* dt.time(), in minutes since midnight
TimeOfDay(dt) == Wall(dt) % MinutesPerDay

(***************************************************************************)
(* parse_human_datetime, lines 106-132                                     *)
(***************************************************************************)
fmts ==
    <<<<"%A", " ", "%B", " ", "%d", " ", "%Y", " ", "a", "t", " ", "%I", ":", "%M", " ", "%p">>,
      <<"%A", " ", "%b", " ", "%d", " ", "%Y", " ", "a", "t", " ", "%I", ":", "%M", " ", "%p">>,
      <<"%A", " ", "%B", " ", "%d", " ", "%Y", " ", "%I", ":", "%M", " ", "%p">>,
      <<"%A", " ", "%b", " ", "%d", " ", "%Y", " ", "%I", ":", "%M", " ", "%p">>,
      <<"%B", " ", "%d", " ", "%Y", " ", "a", "t", " ", "%I", ":", "%M", " ", "%p">>,
      <<"%b", " ", "%d", " ", "%Y", " ", "a", "t", " ", "%I", ":", "%M", " ", "%p">>,
      <<"%B", " ", "%d", " ", "%Y", " ", "%I", ":", "%M", " ", "%p">>,
      <<"%b", " ", "%d", " ", "%Y", " ", "%I", ":", "%M", " ", "%p">>>>

\* lines 118-124: the result of the first format, from the x-th on, that
\* parses
RECURSIVE FirstParsed(_, _)
FirstParsed(s_no_tz, x) ==
    IF x > Len(fmts) THEN NoDateTime
    ELSE CHOOSE out \in {IF naive.ok THEN naive ELSE FirstParsed(s_no_tz, x + 1) :
                           naive \in {strptime(s_no_tz, fmts[x])}} : TRUE

NoInstant == Aware(0, 0)

\* lines 84-132, on the repaired text s: the aware datetime and its zone, or
\* the ValueError raised (line 93: "timezone", lines 127-129: "datetime")
ParseNormalized(s) ==
    IF TzMatches(s) = {}
    THEN [ok |-> FALSE, error |-> "timezone", s |-> s, naive |-> NoDateTime,
          zone |-> "", dt |-> NoInstant]
    ELSE CHOOSE out \in
           {IF naive.ok
            THEN [ok |-> TRUE, error |-> "", s |-> StripTimezone(s), naive |-> naive,
                  zone |-> TzName(TzRaw(s)), dt |-> Localize(naive, TzName(TzRaw(s)))]
            ELSE [ok |-> FALSE, error |-> "datetime", s |-> StripTimezone(s),
                  naive |-> NoDateTime, zone |-> "", dt |-> NoInstant] :
              naive \in {FirstParsed(StripTimezone(s), 1)}} : TRUE

\* parse_human_datetime(dt_str), lines 14-132
parse_human_datetime(dt_str) ==
    CHOOSE out \in {ParseNormalized(s) : s \in {Normalized(dt_str)}} : TRUE

(***************************************************************************)
(* leadconnector.py: the customer's zone                                   *)
(***************************************************************************)
\* log_dep, lines 12-18
log_dep(url, payload, status_code, response_json) ==
    [url |-> url, payload |-> payload, status_code |-> status_code,
     response |-> response_json]

\* _is_offset_like_tz, lines 21-29 (an empty text is the falsy tz_str)
_is_offset_like_tz(tz_str) ==
    IF tz_str = <<>> THEN FALSE
    ELSE LET s == Strip(tz_str)
         IN  (At(s, 1) = "+" \/ At(s, 1) = "-") /\ Len(s) <= 5

\* the zone names pytz.timezone accepts here
all_timezones ==
    <<[text |-> <<"A", "m", "e", "r", "i", "c", "a", "/", "L", "o", "s", "_", "A", "n", "g", "e", "l", "e", "s">>,
       zone |-> "America/Los_Angeles"],
      [text |-> <<"A", "m", "e", "r", "i", "c", "a", "/", "D", "e", "n", "v", "e", "r">>,
       zone |-> "America/Denver"],
      [text |-> <<"A", "m", "e", "r", "i", "c", "a", "/", "C", "h", "i", "c", "a", "g", "o">>,
       zone |-> "America/Chicago"],
      [text |-> <<"A", "m", "e", "r", "i", "c", "a", "/", "N", "e", "w", "_", "Y", "o", "r", "k">>,
       zone |-> "America/New_York"],
      [text |-> <<"A", "m", "e", "r", "i", "c", "a", "/", "P", "h", "o", "e", "n", "i", "x">>,
       zone |-> "America/Phoenix"]>>

IsZoneName(tz) == \E x \in 1..Len(all_timezones) : all_timezones[x].text = tz

\* pytz.timezone(tz) for a name it accepts
ZoneNamed(tz) ==
    all_timezones[CHOOSE x \in 1..Len(all_timezones) : all_timezones[x].text = tz].zone

\* utils.state_timezones.get_timezone_for_state: the static table from a
\* state code to a zone
get_timezone_for_state(state_code) ==
    CASE state_code = "CA" -> "America/Los_Angeles"
      [] state_code = "NY" -> "America/New_York"
      [] state_code = "AZ" -> "America/Phoenix"
      [] state_code = "CO" -> "America/Denver"
      [] state_code = "TX" -> "America/Chicago"

\* a response body that is not JSON leaves try_json = {} (lines 46-50, 71-75,
\* 153-157)
EmptyObject ==
    [shape |-> "object", contact |-> [shape |-> "absent", timezone |-> <<>>],
     location |-> [shape |-> "absent", timezone |-> <<>>], entries |-> <<>>]

try_json(res) == IF res.body.shape = "not_json" THEN EmptyObject ELSE res.body

\* the ways resolve_customer_timezone ends or goes on; calls lists the
\* requests.get calls made so far, dep_logs the entries appended so far
Returned(zone, logs, calls) ==
    [raised |-> FALSE, returned |-> TRUE, zone |-> zone, dep_logs |-> logs, calls |-> calls]

Raised(logs, calls) ==
    [raised |-> TRUE, returned |-> FALSE, zone |-> "", dep_logs |-> logs, calls |-> calls]

FallThrough(logs, calls) ==
    [raised |-> FALSE, returned |-> FALSE, zone |-> "", dep_logs |-> logs, calls |-> calls]

\* try_json.get("contact", {}).get("timezone") raises AttributeError when
\* the body is no object or its "contact" is no object (line 55)
ContactLookupRaises(json) == json.shape # "object" \/ json.contact.shape = "null"

ContactTimezone(json) ==
    IF json.contact.shape = "object" THEN json.contact.timezone ELSE <<>>

\* the contact step as it would be with line 56 reading
\* "if tz and _is_offset_like_tz(tz)"
ContactStepTrustingOffsets(contact_id, res, dep_logs, calls) ==
    IF contact_id = "" THEN FallThrough(dep_logs, calls)
    ELSE IF ~res.reach THEN Raised(dep_logs, Append(calls, "contacts"))
    ELSE LET json == try_json(res)
             logs == Append(dep_logs,
                            log_dep(<<"contacts", contact_id>>, <<>>, res.status, json))
             sent == Append(calls, "contacts")
         IN  IF res.status # 200 THEN FallThrough(logs, sent)
             ELSE IF ContactLookupRaises(json) THEN Raised(logs, sent)
             ELSE LET tz == ContactTimezone(json)
                  IN  IF tz # <<>> /\ _is_offset_like_tz(tz) /\ IsZoneName(tz)
                      THEN Returned(ZoneNamed(tz), logs, sent)
                      ELSE FallThrough(logs, sent)

\* lines 39-61: the contact step; requests.get raises when the service is
\* unreachable
ContactStep(contact_id, res, dep_logs, calls) ==
    IF contact_id = "" THEN FallThrough(dep_logs, calls)
    ELSE IF ~res.reach THEN Raised(dep_logs, Append(calls, "contacts"))
    ELSE LET json == try_json(res)
             logs == Append(dep_logs,
                            log_dep(<<"contacts", contact_id>>, <<>>, res.status, json))
             sent == Append(calls, "contacts")
         IN  IF res.status # 200 THEN FallThrough(logs, sent)
             ELSE IF ContactLookupRaises(json) THEN Raised(logs, sent)
             ELSE LET tz == ContactTimezone(json)
                  IN  IF tz # <<>> /\ ~_is_offset_like_tz(tz) /\ IsZoneName(tz)
                      THEN Returned(ZoneNamed(tz), logs, sent)
                      ELSE FallThrough(logs, sent)

\* lines 63-78: the location step, which only logs
LocationStep(location_id, res, dep_logs, calls) ==
    IF location_id = "" THEN FallThrough(dep_logs, calls)
    ELSE IF ~res.reach THEN Raised(dep_logs, Append(calls, "locations"))
    ELSE FallThrough(Append(dep_logs,
                            log_dep(<<"locations", location_id>>, <<>>, res.status,
                                    try_json(res))),
                     Append(calls, "locations"))

\* resolve_customer_timezone, lines 35-81
resolve_customer_timezone(contact_id, location_id, state_code, contact_res, location_res, dep_logs) ==
    LET c == ContactStep(contact_id, contact_res, dep_logs, <<>>)
    IN  IF c.raised \/ c.returned THEN c
        ELSE LET l == LocationStep(location_id, location_res, c.dep_logs, c.calls)
             IN  IF l.raised THEN l
                 ELSE Returned(get_timezone_for_state(state_code), l.dep_logs, l.calls)

(***************************************************************************)
(* leadconnector.py: the slots                                             *)
(***************************************************************************)
\* datetime.fromisoformat(slot_str) of "YYYY-MM-DDTHH:MM:00+HH:MM", the text
\* given by its fields
fromisoformat(slot) ==
    Aware(DaysFromCivil(slot.y, slot.mo, slot.d) * MinutesPerDay
          + slot.h * 60 + slot.mi - slot.off, slot.off)

\* "%Y-%m-%d %I:%M %p"
RequestedFormat == <<"%Y", "-", "%m", "-", "%d", " ", "%I", ":", "%M", " ", "%p">>

\* parse_requested_datetime, lines 99-104: ok = FALSE where it raises
\* ValueError
parse_requested_datetime(dt_str, customer_tz) ==
    LET naive == strptime(dt_str, RequestedFormat)
    IN  IF naive.ok THEN [ok |-> TRUE, dt |-> Localize(naive, customer_tz)]
        ELSE [ok |-> FALSE, dt |-> NoInstant]

\* business hours with the closing time left out: start <= t < end
is_before_closing(dt) == 8 * 60 <= TimeOfDay(dt) /\ TimeOfDay(dt) < 17 * 60

\* is_in_business_hours, lines 107-108
is_in_business_hours(dt) == 8 * 60 <= TimeOfDay(dt) /\ TimeOfDay(dt) <= 17 * 60

\* tz_full_names.get(offset_minutes, dt.tzinfo.tzname(dt)), lines 86-94
ZoneLabel(dt, zone) ==
    IF dt.off = -480 THEN "Pacific Standard Time"
    ELSE IF dt.off = -420 THEN "Pacific Daylight Time"
    ELSE ZoneInfo(zone).names[IF dt.off = ZoneInfo(zone).std THEN 1 ELSE 2]

\* format_datetime, lines 85-96: the fields "%A %B %d, %Y at %I:%M %p" and
\* the zone label render
format_datetime(dt, zone) ==
    LET days  == Wall(dt) \div MinutesPerDay
        date  == CivilFromDays(days)
        hour  == TimeOfDay(dt) \div 60
    IN  [A |-> WeekdayNames[Weekday(days) + 1], B |-> MonthNames[date.mo],
         d |-> date.d, Y |-> date.y,
         I |-> IF hour % 12 = 0 THEN 12 ELSE hour % 12,
         M |-> TimeOfDay(dt) % 60,
         p |-> IF hour < 12 THEN "AM" ELSE "PM",
         tz |-> ZoneLabel(dt, zone)]

\* lines 174-178: the slots of every entry that is an object with "slots",
\* in the order of the body
RECURSIVE provider_slots(_)
provider_slots(entries) ==
    IF entries = <<>> THEN <<>>
    ELSE (IF entries[1].isdict /\ entries[1].has_slots
          THEN [x \in 1..Len(entries[1].slots) |-> fromisoformat(entries[1].slots[x])]
          ELSE <<>>)
         \o provider_slots(Tail(entries))

\* abs(dt - requested_customer), line 212
Distance(dt, requested) ==
    IF dt.utc >= requested.utc THEN dt.utc - requested.utc ELSE requested.utc - dt.utc

\* one step of a sort that is not stable: dt goes in front of the elements
\* whose key equals its own
RECURSIVE InsertBeforeEqual(_, _, _)
InsertBeforeEqual(sorted, dt, requested) ==
    IF sorted = <<>> THEN <<dt>>
    ELSE IF Distance(sorted[1], requested) < Distance(dt, requested)
         THEN <<sorted[1]>> \o InsertBeforeEqual(Tail(sorted), dt, requested)
    ELSE <<dt>> \o sorted

\* one step of the stable sort: dt goes behind every element whose key is
\* not greater than its own
RECURSIVE InsertByDistance(_, _, _)
InsertByDistance(sorted, dt, requested) ==
    IF sorted = <<>> THEN <<dt>>
    ELSE IF Distance(sorted[1], requested) <= Distance(dt, requested)
         THEN <<sorted[1]>> \o InsertByDistance(Tail(sorted), dt, requested)
    ELSE <<dt>> \o sorted

\* sorted(times_customer, key=lambda dt: abs(dt - requested_customer)),
\* lines 210-213
RECURSIVE SortFrom(_, _, _, _)
SortFrom(times, x, sorted, requested) ==
    IF x > Len(times) THEN sorted
    ELSE SortFrom(times, x + 1, InsertByDistance(sorted, times[x], requested), requested)

sorted_by_distance(times, requested) == SortFrom(times, 1, <<>>, requested)

\* requested_provider.replace(hour=0, minute=0, ...), lines 195-199
start_day_provider(requested_customer, provider_off) ==
    LET requested_provider == AsOffset(requested_customer, provider_off)
    IN  Aware(requested_provider.utc - TimeOfDay(requested_provider), provider_off)

\* lines 201-213: targeted mode
TargetedTimes(slots, requested_customer, customer_tz) ==
    LET start    == start_day_provider(requested_customer, slots[1].off)
        eligible == SelectSeq(slots, LAMBDA slot : slot.utc >= start.utc)
        customer == [x \in 1..Len(eligible) |-> AsZone(eligible[x], customer_tz)]
    IN  sorted_by_distance(SelectSeq(customer, is_in_business_hours), requested_customer)

\* open mode without the comparison with now of line 218
OpenTimesOfAnyTime(slots, now_utc, customer_tz) ==
    LET customer == [x \in 1..Len(slots) |-> AsZone(slots[x], customer_tz)]
    IN  SelectSeq(customer, is_in_business_hours)

\* lines 216-221: open mode
OpenTimes(slots, now_utc, customer_tz) ==
    LET eligible == SelectSeq(slots, LAMBDA slot : slot.utc >= now_utc)
        customer == [x \in 1..Len(eligible) |-> AsZone(eligible[x], customer_tz)]
    IN  SelectSeq(customer, is_in_business_hours)

(***************************************************************************)
(* leadconnector.py: handle_leadconnector_request                          *)
(***************************************************************************)
DaysAhead == 7

\* func.HttpResponse(text, status_code=...)
TextResponse(status, text) ==
    [kind |-> "text", status |-> status, text |-> text, array |-> <<>>,
     dependent_requests |-> <<>>, times_customer |-> <<>>, matched |-> FALSE,
     calls |-> <<>>]

\* func.HttpResponse(json.dumps({"available_times": ..., "dependent_requests":
\* dep_logs}), status_code=...)
JsonResponse(status, times, zone, dep_logs, matched, calls) ==
    [kind |-> "json", status |-> status, text |-> "",
     array |-> [x \in 1..Len(times) |-> format_datetime(times[x], zone)],
     dependent_requests |-> dep_logs, customer_tz |-> zone, times_customer |-> times,
     matched |-> matched, calls |-> calls]

\* an exception leaves the handler: calendar_router passes it on and the
\* Functions host answers 500 with no body of the handler's
Unhandled(calls) ==
    [kind |-> "unhandled", status |-> 500, text |-> "", array |-> <<>>,
     dependent_requests |-> <<>>, times_customer |-> <<>>, matched |-> FALSE,
     calls |-> calls]

\* lines 143-159 on: the slot fetch and what follows it
SlotFetch(req, env, customer_tz, dep_logs0, calls0) ==
    LET calls == Append(calls0, "free-slots")
    IN  IF ~env.slots.reach THEN Unhandled(calls)
        ELSE
        LET slot_json == try_json(env.slots)
            dep_logs  == Append(dep_logs0,
                            log_dep(<<"calendars", req.calendar_id, "free-slots">>,
                                    [startDate |-> env.now,
                                     endDate |-> env.now + DaysAhead * MinutesPerDay],
                                    env.slots.status, slot_json))
        IN  IF env.slots.status # 200
            THEN JsonResponse(500, <<>>, customer_tz, dep_logs, FALSE, calls)
            ELSE IF slot_json.shape # "object" THEN Unhandled(calls)   \* data.items()
            ELSE
            LET slots == provider_slots(slot_json.entries)
            IN  IF slots = <<>>
                THEN JsonResponse(200, <<>>, customer_tz, dep_logs, FALSE, calls)
                ELSE IF req.requested_date_time # <<>>
                THEN LET requested == parse_requested_datetime(req.requested_date_time,
                                                               customer_tz)
                     IN  IF ~requested.ok THEN Unhandled(calls)   \* ValueError, line 104
                         ELSE JsonResponse(200,
                                  TargetedTimes(slots, requested.dt, customer_tz),
                                  customer_tz, dep_logs, TRUE, calls)
                ELSE JsonResponse(200, OpenTimes(slots, env.now, customer_tz),
                                  customer_tz, dep_logs, TRUE, calls)

\* handle_leadconnector_request, lines 112-241
handle_leadconnector_request(req, env) ==
    IF req.orgid = "" \/ req.state_code = ""
    THEN TextResponse(400, "Missing parameters: orgid, state_code")
    ELSE IF req.token = "" /\ req.authorization = ""
    THEN TextResponse(400, "Missing API token")
    ELSE LET tz == resolve_customer_timezone(req.contact_id, req.location_id,
                       req.state_code, env.contact, env.location, <<>>)
         IN  IF tz.raised THEN Unhandled(tz.calls)
             ELSE SlotFetch(req, env, tz.zone, tz.dep_logs, tz.calls)

(***************************************************************************)
(* book.py: detect_calendar_timezone and book_leadconnector_appointment    *)
(***************************************************************************)
AppointmentMinutes == 30

\* the offset of the first slot of the first entry that has one (lines
\* 153-157), or ok = FALSE where detect_calendar_timezone raises (the service
\* unreachable, a status other than 200, a body that is no JSON object, no
\* slot in the body)
RECURSIVE FirstSlotOffset(_)
FirstSlotOffset(entries) ==
    IF entries = <<>> THEN [ok |-> FALSE, off |-> 0]
    ELSE IF entries[1].isdict /\ entries[1].has_slots /\ entries[1].slots # <<>>
         THEN [ok |-> TRUE, off |-> fromisoformat(entries[1].slots[1]).off]
    ELSE FirstSlotOffset(Tail(entries))

\* a detection that takes UTC where the calendar gives no answer
detect_calendar_timezone_or_utc(res) ==
    IF ~res.reach \/ res.status # 200 \/ res.body.shape # "object"
    THEN [ok |-> TRUE, off |-> 0]
    ELSE FirstSlotOffset(res.body.entries)

\* detect_calendar_timezone, lines 140-159
detect_calendar_timezone(res) ==
    IF ~res.reach \/ res.status # 200 \/ res.body.shape # "object"
    THEN [ok |-> FALSE, off |-> 0]
    ELSE FirstSlotOffset(res.body.entries)

\* dt.isoformat(): the fields of "YYYY-MM-DDTHH:MM:00+HH:MM"
isoformat(dt) ==
    LET date == CivilFromDays(Wall(dt) \div MinutesPerDay)
    IN  [y |-> date.y, mo |-> date.mo, d |-> date.d,
         h |-> TimeOfDay(dt) \div 60, mi |-> TimeOfDay(dt) % 60, off |-> dt.off]

\* a payload whose end is taken from requested_dt, in its own zone, instead
\* of calendar_dt
PayloadEndFromRequested(body, requested_dt, calendar_off) ==
    LET calendar_dt == AsOffset(requested_dt, calendar_off)
    IN  [calendarId |-> body.calendar_id, locationId |-> body.locationId,
         contactId |-> body.contactId,
         title |-> <<"AI Scheduled Call - ", body.lead_name>>,
         description |-> body.description,
         startTime |-> isoformat(calendar_dt),
         endTime |-> isoformat(Aware(requested_dt.utc + AppointmentMinutes, requested_dt.off))]

\* lines 197-217: the appointment payload
Payload(body, requested_dt, calendar_off) ==
    LET calendar_dt == AsOffset(requested_dt, calendar_off)
    IN  [calendarId |-> body.calendar_id, locationId |-> body.locationId,
         contactId |-> body.contactId,
         title |-> <<"AI Scheduled Call - ", body.lead_name>>,
         description |-> body.description,
         startTime |-> isoformat(calendar_dt),
         endTime |-> isoformat(Aware(calendar_dt.utc + AppointmentMinutes, calendar_dt.off))]

NoPayload == [calendarId |-> "", locationId |-> "", contactId |-> "", title |-> <<>>,
              description |-> "", startTime |-> isoformat(NoInstant),
              endTime |-> isoformat(NoInstant)]

\* line 181: all([dt_str, calendar_id, lead_name, location_id, contact_id, token])
RequiredFieldsPresent(body) ==
    /\ body.proposed_datetime # <<>>
    /\ body.calendar_id # ""
    /\ body.lead_name # ""
    /\ body.locationId # ""
    /\ body.contactId # ""
    /\ (body.token # "" \/ body.authorization # "")

\* what book_leadconnector_appointment has done so far: parsed and detected
\* say whether lines 188 and 193 have returned, calls lists the HTTP calls
\* sent
BookState(kind, status, parsed, detected, off, payload, calls) ==
    [kind |-> kind, status |-> status, parsed |-> parsed, detected |-> detected,
     calendar_off |-> off, payload |-> payload, calls |-> calls]

\* "2025-11-28 09:50 AM"
Requested0950 ==
    <<"2", "0", "2", "5", "-", "1", "1", "-", "2", "8", " ", "0", "9", ":", "5", "0", " ", "A", "M">>

\* "2025-11-28 09:30 AM"
Requested0930 ==
    <<"2", "0", "2", "5", "-", "1", "1", "-", "2", "8", " ", "0", "9", ":", "3", "0", " ", "A", "M">>

\* "2025-11-28 01:00 AM"
RequestedEarly ==
    <<"2", "0", "2", "5", "-", "1", "1", "-", "2", "8", " ", "0", "1", ":", "0", "0", " ", "A", "M">>

\* "2025-11-28 14:00"
RequestedMalformed ==
    <<"2", "0", "2", "5", "-", "1", "1", "-", "2", "8", " ", "1", "4", ":", "0", "0">>

\* "Friday, November 28th, 2025 at 11 AM PST"
HumanAt11 ==
    <<"F", "r", "i", "d", "a", "y", ",", " ", "N", "o", "v", "e", "m", "b", "e", "r", " ", "2", "8", "t", "h", ",", " ", "2", "0", "2", "5", " ", "a", "t", " ", "1", "1", " ", "A", "M", " ", "P", "S", "T">>

\* "Friday November 28 2025 1100AM PST"
Human1100 ==
    <<"F", "r", "i", "d", "a", "y", " ", "N", "o", "v", "e", "m", "b", "e", "r", " ", "2", "8", " ", "2", "0", "2", "5", " ", "1", "1", "0", "0", "A", "M", " ", "P", "S", "T">>

\* "Friday November 28 2025 11 30 AM PST"
Human1130 ==
    <<"F", "r", "i", "d", "a", "y", " ", "N", "o", "v", "e", "m", "b", "e", "r", " ", "2", "8", " ", "2", "0", "2", "5", " ", "1", "1", " ", "3", "0", " ", "A", "M", " ", "P", "S", "T">>

\* "  Nov 28th,  2025\t3pm   Eastern Standard Time "
HumanSpaced ==
    <<" ", " ", "N", "o", "v", " ", "2", "8", "t", "h", ",", " ", " ", "2", "0", "2", "5", "\t", "3", "p", "m", " ", " ", " ", "E", "a", "s", "t", "e", "r", "n", " ", "S", "t", "a", "n", "d", "a", "r", "d", " ", "T", "i", "m", "e", " ">>

\* "Friday, November 28th, 2025 at 11 AM"
HumanNoZone ==
    <<"F", "r", "i", "d", "a", "y", ",", " ", "N", "o", "v", "e", "m", "b", "e", "r", " ", "2", "8", "t", "h", ",", " ", "2", "0", "2", "5", " ", "a", "t", " ", "1", "1", " ", "A", "M">>

\* "PST Friday November 28 2025 at 11 AM"
HumanZoneFirst ==
    <<"P", "S", "T", " ", "F", "r", "i", "d", "a", "y", " ", "N", "o", "v", "e", "m", "b", "e", "r", " ", "2", "8", " ", "2", "0", "2", "5", " ", "a", "t", " ", "1", "1", " ", "A", "M">>

\* "February 30th 2025 at 9 AM MDT"
HumanBadDay ==
    <<"F", "e", "b", "r", "u", "a", "r", "y", " ", "3", "0", "t", "h", " ", "2", "0", "2", "5", " ", "a", "t", " ", "9", " ", "A", "M", " ", "M", "D", "T">>

\* "Tuesday July 1st 2025 at 12 PM cdt"
HumanSummer ==
    <<"T", "u", "e", "s", "d", "a", "y", " ", "J", "u", "l", "y", " ", "1", "s", "t", " ", "2", "0", "2", "5", " ", "a", "t", " ", "1", "2", " ", "P", "M", " ", "c", "d", "t">>

\* "America/Denver"
TzDenver ==
    <<"A", "m", "e", "r", "i", "c", "a", "/", "D", "e", "n", "v", "e", "r">>

\* "America/New_York"
TzNewYork ==
    <<"A", "m", "e", "r", "i", "c", "a", "/", "N", "e", "w", "_", "Y", "o", "r", "k">>

\* "America/Chicago"
TzChicago ==
    <<"A", "m", "e", "r", "i", "c", "a", "/", "C", "h", "i", "c", "a", "g", "o">>

\* "-03"
TzMinus03 ==
    <<"-", "0", "3">>

\* "  -03  "
TzMinus03Padded ==
    <<" ", " ", "-", "0", "3", " ", " ">>

\* "+0530"
TzPlus0530 ==
    <<"+", "0", "5", "3", "0">>

\* "+05:30"
TzPlus0530Colon ==
    <<"+", "0", "5", ":", "3", "0">>

\* "Mars/Phobos"
TzUnknown ==
    <<"M", "a", "r", "s", "/", "P", "h", "o", "b", "o", "s">>

(***************************************************************************)
(* The requests and the answers of the services                            *)
(***************************************************************************)
\* the longest list of slots a calendar answers with
MaxSlots == 3

\* the answer of a service: reach = FALSE when requests raises instead
Response(status, body) == [reach |-> TRUE, status |-> status, body |-> body]

Body(shape, contact, location, entries) ==
    [shape |-> shape, contact |-> contact, location |-> location, entries |-> entries]

NoField == [shape |-> "absent", timezone |-> <<>>]

NotJson == Body("not_json", NoField, NoField, <<>>)

JsonArray == Body("array", NoField, NoField, <<>>)

Unreachable == [reach |-> FALSE, status |-> 0, body |-> NotJson]

\* the response of a call that is not made
NoResponse == [reach |-> FALSE, status |-> -1, body |-> NotJson]

ContactBody(contact) == Body("object", contact, NoField, <<>>)

LocationBody(location) == Body("object", NoField, location, <<>>)

SlotsBody(entries) == Body("object", NoField, NoField, entries)

TimezoneTexts ==
    {TzDenver, TzNewYork, TzMinus03, TzMinus03Padded, TzPlus0530, TzPlus0530Colon,
     TzUnknown, <<>>}

ContactBodies ==
    {NotJson, JsonArray, ContactBody(NoField),
     ContactBody([shape |-> "null", timezone |-> <<>>])}
    \cup {ContactBody([shape |-> "object", timezone |-> tz]) : tz \in TimezoneTexts}

ContactResponses ==
    {Unreachable} \cup {Response(st, b) : st \in {200, 404}, b \in ContactBodies}

LocationBodies ==
    {NotJson, JsonArray, LocationBody([shape |-> "object", timezone |-> TzChicago])}

LocationResponses ==
    {Unreachable} \cup {Response(st, b) : st \in {200, 500}, b \in LocationBodies}

\* an id with the answer of its lookup: no call without an id
Lookups(id, responses) ==
    {[id |-> "", res |-> NoResponse]} \cup {[id |-> id, res |-> r] : r \in responses}

\* a slot text of the day d of November 2025, at UTC-08:00
Slot(d, h, mi) == [y |-> 2025, mo |-> 11, d |-> d, h |-> h, mi |-> mi, off |-> -480]

SlotPool ==
    {Slot(27, 10, 0), Slot(28, 8, 0), Slot(28, 9, 0), Slot(28, 9, 30), Slot(28, 10, 0),
     Slot(28, 14, 0), Slot(28, 17, 0), Slot(28, 18, 0)}

SlotLists == UNION {[1..n -> SlotPool] : n \in 0..MaxSlots}

SameDay(a, b) == a.y = b.y /\ a.mo = b.mo /\ a.d = b.d

\* the body of free-slots: one entry a day, each with its "slots", and the
\* "traceId" entry, which is no object
RECURSIVE DayEntries(_)
DayEntries(slots) ==
    IF slots = <<>> THEN <<[isdict |-> FALSE, has_slots |-> FALSE, slots |-> <<>>]>>
    ELSE LET rest == DayEntries(Tail(slots))
         IN  IF rest[1].isdict /\ SameDay(rest[1].slots[1], slots[1])
             THEN <<[rest[1] EXCEPT !.slots = <<slots[1]>> \o @]>> \o Tail(rest)
             ELSE <<[isdict |-> TRUE, has_slots |-> TRUE, slots |-> <<slots[1]>>]>> \o rest

\* minutes since 1970 of day d of November 2025, h:mi UTC
Utc(d, h, mi) == DaysFromCivil(2025, 11, d) * MinutesPerDay + h * 60 + mi

\* datetime.now(): 08:30 and 09:15 of 28 November at UTC-08:00
Nows == {Utc(28, 16, 30), Utc(28, 17, 15)}

AvailableRequest(orgid, state_code, token, contact_id, location_id, requested) ==
    [orgid |-> orgid, state_code |-> state_code, token |-> token, authorization |-> "",
     calendar_id |-> "cal1", contact_id |-> contact_id, location_id |-> location_id,
     requested_date_time |-> requested]

AvailableEnv(contact, location, slots, now) ==
    [contact |-> contact, location |-> location, slots |-> slots, now |-> now]

\* requests whose lookups answer, over every list of slots: open mode at
\* each now, targeted mode for each requested time
SlotCases ==
    {[req |-> AvailableRequest("org1", st, "t", "", "", m.requested),
      env |-> AvailableEnv(NoResponse, NoResponse,
                           Response(200, SlotsBody(DayEntries(slots))), m.now)] :
        st \in {"CA", "NY"},
        slots \in SlotLists,
        m \in {[requested |-> <<>>, now |-> n] : n \in Nows}
              \cup {[requested |-> r, now |-> Utc(28, 16, 30)] :
                      r \in {Requested0950, Requested0930, RequestedEarly}}}

SomeSlots == <<Slot(28, 10, 0), Slot(28, 9, 0), Slot(28, 18, 0)>>

\* requests over the answers the three services can give
LookupCases ==
    {[req |-> AvailableRequest("org1", st, "t", c.id, l.id, requested),
      env |-> AvailableEnv(c.res, l.res, slots, Utc(28, 16, 30))] :
        st \in {"CA", "NY"},
        c \in Lookups("c1", {Unreachable, Response(404, NotJson), Response(200, JsonArray),
                             Response(200, ContactBody([shape |-> "object",
                                                        timezone |-> TzDenver]))}),
        l \in Lookups("l1", {Unreachable, Response(500, NotJson),
                             Response(200, LocationBody([shape |-> "object",
                                                         timezone |-> TzChicago]))}),
        slots \in {Unreachable, Response(500, NotJson), Response(200, NotJson),
                   Response(200, JsonArray), Response(200, SlotsBody(DayEntries(<<>>))),
                   Response(200, SlotsBody(DayEntries(SomeSlots)))},
        requested \in {<<>>, Requested0950, RequestedMalformed}}

\* requests that miss a required parameter
MissingCases ==
    {[req |-> AvailableRequest(orgid, st, token, "c1", "l1", <<>>),
      env |-> AvailableEnv(NoResponse, NoResponse, NoResponse, Utc(28, 16, 30))] :
        orgid \in {"", "org1"}, st \in {"", "CA"}, token \in {"", "t"}}
    \ {[req |-> AvailableRequest("org1", "CA", "t", "c1", "l1", <<>>),
        env |-> AvailableEnv(NoResponse, NoResponse, NoResponse, Utc(28, 16, 30))]}

AvailableCases == SlotCases \cup LookupCases \cup MissingCases

HumanTexts ==
    {HumanAt11, Human1100, Human1130, HumanSpaced, HumanNoZone, HumanZoneFirst,
     HumanBadDay, HumanSummer}

\* the spellings of a timezone token: as the maps have it, in lower case and
\* with the first letter of each word in upper case
Spellings(t) ==
    LET Low(c)  == IF c \in UpperLetter THEN CHOOSE l \in LowerLetter : UpperOf[l] = c ELSE c
        lower   == [i \in 1..Len(t) |-> Low(t[i])]
        title   == [i \in 1..Len(t) |-> IF i = 1 \/ t[i - 1] = " " THEN t[i] ELSE Low(t[i])]
    IN  {t, lower, title}

\* texts for proposed_datetime over their endings: a date and time followed
\* by every spelling of every token, by endings that are no token ("UTC",
\* "GMT", "AKST", "PT", "PST.", "PST please", "EST 2025", "Pacific Time",
\* "Pacific Standard", "America/Los_Angeles", "-08:00", "P S T"), and the
\* endings alone
EndingTexts ==
    LET bodies  == {<<"F", "r", "i", "d", "a", "y", " ", "N", "o", "v", "e", "m", "b", "e", "r", " ", "2", "8", " ", "2", "0", "2", "5", " ", "a", "t", " ", "1", "1", " ", "A", "M">>,
                    <<"N", "o", "v", " ", "2", "8", " ", "2", "0", "2", "5", " ", "3", "P", "M">>}
        tokens  == UNION {Spellings(tz_regex[x].token) : x \in 1..Len(tz_regex)}
        others  ==
            {
              <<"U", "T", "C">>,
              <<"G", "M", "T">>,
              <<"A", "K", "S", "T">>,
              <<"P", "T">>,
              <<"P", "S", "T", ".">>,
              <<"P", "S", "T", " ", "p", "l", "e", "a", "s", "e">>,
              <<"E", "S", "T", " ", "2", "0", "2", "5">>,
              <<"P", "a", "c", "i", "f", "i", "c", " ", "T", "i", "m", "e">>,
              <<"P", "a", "c", "i", "f", "i", "c", " ", "S", "t", "a", "n", "d", "a", "r", "d">>,
              <<"A", "m", "e", "r", "i", "c", "a", "/", "L", "o", "s", "_", "A", "n", "g", "e", "l", "e", "s">>,
              <<"-", "0", "8", ":", "0", "0">>,
              <<"P", " ", "S", " ", "T">>}
    IN  {b \o <<" ">> \o e : b \in bodies, e \in tokens \cup others}
        \cup UNION {Spellings(tz_regex[x].token) : x \in {1, 9}}
        \cup others

\* the JSON body of a booking; duration is a key the handler never reads
BookBody(shape, dt_str, lead_name, token) ==
    [shape |-> shape, proposed_datetime |-> dt_str, calendar_id |-> "cal1",
     lead_name |-> lead_name, locationId |-> "l1", description |-> "", contactId |-> "c1",
     token |-> token, authorization |-> "", duration |-> ""]

\* the bodies sent: among them dates at the end of a year, before a leap day
\* and in the hour daylight time skips ("December 31 2025 at 10 AM PST",
\* "Feb 28 2028 10AM PST", "March 8 2026 at 2 AM PST"), with and without a
\* "duration" of their own
BookBodies ==
    LET late == {<<"D", "e", "c", "e", "m", "b", "e", "r", " ", "3", "1", " ", "2", "0", "2", "5", " ", "a", "t", " ", "1", "0", " ", "A", "M", " ", "P", "S", "T">>,
                 <<"F", "e", "b", " ", "2", "8", " ", "2", "0", "2", "8", " ", "1", "0", "A", "M", " ", "P", "S", "T">>,
                 <<"M", "a", "r", "c", "h", " ", "8", " ", "2", "0", "2", "6", " ", "a", "t", " ", "2", " ", "A", "M", " ", "P", "S", "T">>}
    IN  {BookBody("not_json", <<>>, "", ""), BookBody("array", <<>>, "", "")}
        \cup {BookBody("object", t, "Ada", "t") : t \in HumanTexts \cup late \cup {<<>>}}
        \cup {[BookBody("object", t, "Ada", "t") EXCEPT !.duration = "60"] :
                 t \in late \cup {HumanAt11}}
        \cup {BookBody("object", HumanAt11, n, t) : n \in {"", "Ada"}, t \in {"", "t"}}

CalendarResponses ==
    {Unreachable, Response(500, NotJson), Response(200, NotJson), Response(200, JsonArray),
     Response(200, SlotsBody(DayEntries(<<>>))),
     Response(200, SlotsBody(DayEntries(SomeSlots))),
     Response(200, SlotsBody(DayEntries(<<[Slot(28, 13, 0) EXCEPT !.off = -180]>>))),
     Response(200, SlotsBody(DayEntries(<<[Slot(28, 21, 30) EXCEPT !.off = 330]>>)))}

PostResponses == {Unreachable, Response(201, NotJson), Response(400, NotJson)}

(***************************************************************************)
(* The state machine: one request at a time, nothing kept between requests *)
(***************************************************************************)
VARIABLES
    op,     \* the operation running or just answered
    pc,     \* "idle", "done", or the next step of book_leadconnector_appointment
    req,    \* its arguments
    env,    \* the answers of the services it asked
    resp    \* its result

vars == <<op, pc, req, env, resp>>

Init ==
    /\ op = "none"
    /\ pc = "idle"
    /\ req = <<>>
    /\ env = <<>>
    /\ resp = <<>>

\* resolve_customer_timezone on its own
ResolveTimezone ==
    /\ pc = "idle"
    /\ \E c \in Lookups("c1", ContactResponses), l \in Lookups("l1", LocationResponses),
          st \in {"CA", "NY", "AZ"} :
          /\ req' = [contact_id |-> c.id, location_id |-> l.id, state_code |-> st]
          /\ env' = [contact |-> c.res, location |-> l.res]
          /\ resp' = resolve_customer_timezone(c.id, l.id, st, c.res, l.res, <<>>)
    /\ op' = "resolve"
    /\ pc' = "done"

\* GET calendar/leadconnector/get-available-times
GetAvailableTimes ==
    /\ pc = "idle"
    /\ \E case \in AvailableCases :
          /\ req' = case.req
          /\ env' = case.env
          /\ resp' = handle_leadconnector_request(case.req, case.env)
    /\ op' = "available"
    /\ pc' = "done"

\* parse_human_datetime on its own
ParseHumanDatetime ==
    /\ pc = "idle"
    /\ \E dt_str \in HumanTexts \cup EndingTexts :
          /\ req' = dt_str
          /\ resp' = parse_human_datetime(dt_str)
    /\ env' = <<>>
    /\ op' = "parse"
    /\ pc' = "done"

NotParsed == [ok |-> FALSE, error |-> "", s |-> <<>>, naive |-> NoDateTime,
              zone |-> "", dt |-> NoInstant]

\* book.py lines 167-185: the body is read and its fields are checked
BookReceive ==
    /\ pc = "idle"
    /\ \E body \in BookBodies :
          /\ req' = body
          /\ IF body.shape = "not_json"
             THEN /\ resp' = BookState("text", 400, NotParsed, FALSE, 0, NoPayload, <<>>)
                  /\ pc' = "done"
             ELSE IF body.shape # "object"   \* body.get raises AttributeError
             THEN /\ resp' = BookState("unhandled", 500, NotParsed, FALSE, 0, NoPayload, <<>>)
                  /\ pc' = "done"
             ELSE IF ~RequiredFieldsPresent(body)
             THEN /\ resp' = BookState("text", 400, NotParsed, FALSE, 0, NoPayload, <<>>)
                  /\ pc' = "done"
             ELSE /\ resp' = BookState("pending", 0, NotParsed, FALSE, 0, NoPayload, <<>>)
                  /\ pc' = "parse"
    /\ env' = <<>>
    /\ op' = "book"

\* lines 187-190
BookParse ==
    /\ pc = "parse"
    /\ LET requested_dt == parse_human_datetime(req.proposed_datetime)
       IN  IF requested_dt.ok
           THEN /\ resp' = [resp EXCEPT !.parsed = requested_dt]
                /\ pc' = "detect"
           ELSE /\ resp' = [resp EXCEPT !.kind = "text", !.status = 400,
                                        !.parsed = requested_dt]
                /\ pc' = "done"
    /\ UNCHANGED <<op, req, env>>

\* lines 192-195
BookDetect ==
    /\ pc = "detect"
    /\ \E res \in CalendarResponses :
          LET calendar_tz == detect_calendar_timezone(res)
              calls       == Append(resp.calls, "free-slots")
          IN  /\ env' = <<res>>
              /\ IF calendar_tz.ok
                 THEN /\ resp' = [resp EXCEPT !.detected = TRUE,
                                              !.calendar_off = calendar_tz.off,
                                              !.calls = calls]
                      /\ pc' = "post"
                 ELSE /\ resp' = [resp EXCEPT !.kind = "text", !.status = 500,
                                              !.calls = calls]
                      /\ pc' = "done"
    /\ UNCHANGED <<op, req>>

\* lines 197-235: the payload is built and posted; requests.post raises when
\* the service is unreachable
BookPost ==
    /\ pc = "post"
    /\ \E res \in PostResponses :
          LET payload == Payload(req, resp.parsed.dt, resp.calendar_off)
              calls   == Append(resp.calls, "appointments")
          IN  /\ env' = Append(env, res)
              /\ resp' = IF res.reach
                         THEN [resp EXCEPT !.kind = "json", !.status = res.status,
                                           !.payload = payload, !.calls = calls]
                         ELSE [resp EXCEPT !.kind = "unhandled", !.status = 500,
                                           !.payload = payload, !.calls = calls]
    /\ pc' = "done"
    /\ UNCHANGED <<op, req>>

\* the response leaves; nothing of the request is kept
Deliver ==
    /\ pc = "done"
    /\ op' = "none"
    /\ pc' = "idle"
    /\ req' = <<>>
    /\ env' = <<>>
    /\ resp' = <<>>

Next ==
    \/ ResolveTimezone
    \/ GetAvailableTimes
    \/ ParseHumanDatetime
    \/ BookReceive
    \/ BookParse
    \/ BookDetect
    \/ BookPost
    \/ Deliver

Spec == Init /\ [][Next]_vars

(***************************************************************************)
(* Slot matching (C1, C2, C3)                                              *)
(***************************************************************************)
\* a get-available-times request answered after slot matching ran
Matched == op = "available" /\ resp.kind = "json" /\ resp.matched

TargetedMode == Matched /\ req.requested_date_time # <<>>

OpenMode == Matched /\ req.requested_date_time = <<>>

\* the instants of the slots the calendar answered with, in its order
ProviderInstants ==
    LET slots == provider_slots(env.slots.body.entries)
    IN  [x \in 1..Len(slots) |-> slots[x].utc]

ReturnedInstants == [x \in 1..Len(resp.times_customer) |-> resp.times_customer[x].utc]

\* the requested instant: the requested wall time in the customer's zone
RequestedInstant ==
    parse_requested_datetime(req.requested_date_time, resp.customer_tz).dt.utc

Gap(u, v) == IF u >= v THEN u - v ELSE v - u

Count(seq, v) == Cardinality({x \in 1..Len(seq) : seq[x] = v})

Range(seq) == {seq[x] : x \in 1..Len(seq)}

\* the wall time of day, in minutes, of instant u in the customer's zone
CustomerTimeOfDay(u) == (u + OffsetAt(resp.customer_tz, u)) % MinutesPerDay

InBusinessHours(u) == CustomerTimeOfDay(u) >= 480 /\ CustomerTimeOfDay(u) <= 1020

\* 00:00 of the provider-local day of the requested instant: the instant m
\* of the requested instant's last 24 hours that is a provider midnight
ProviderDayStart ==
    LET off == provider_slots(env.slots.body.entries)[1].off
    IN  CHOOSE m \in (RequestedInstant - MinutesPerDay + 1)..RequestedInstant :
            (m + off) % MinutesPerDay = 0

\* the times of day of 28 November at UTC-08:00, as instants
Pacific(h, mi) == Utc(28, h + 8, mi)

\* C1: in targeted mode the returned slots are in ascending order of their
\* distance from the requested instant, slots at the same distance keep the
\* order the calendar gave them, and slots {09:00, 10:00, 14:00} with a
\* request of 09:50 come back as [10:00, 09:00, 14:00].
C1_NearestFirstStable ==
    TargetedMode =>
        \A r \in {RequestedInstant}, out \in {ReturnedInstants} :
            \A in \in {SelectSeq(ProviderInstants, LAMBDA u : u \in Range(out))} :
                /\ \A x, y \in 1..Len(out) :
                      x < y => Gap(out[x], r) <= Gap(out[y], r)
                /\ \A g \in {Gap(u, r) : u \in Range(out)} :
                      SelectSeq(out, LAMBDA u : Gap(u, r) = g)
                      = SelectSeq(in, LAMBDA u : Gap(u, r) = g)
                /\ (/\ Range(ProviderInstants)
                       = {Pacific(9, 0), Pacific(10, 0), Pacific(14, 0)}
                    /\ Len(ProviderInstants) = 3
                    /\ r = Pacific(9, 50))
                   => out = <<Pacific(10, 0), Pacific(9, 0), Pacific(14, 0)>>

\* C1 happens: the example of the claim, with the slots given out of order
C1_Witness ==
    /\ TargetedMode
    /\ ProviderInstants = <<Pacific(14, 0), Pacific(9, 0), Pacific(10, 0)>>
    /\ RequestedInstant = Pacific(9, 50)
    /\ ReturnedInstants = <<Pacific(10, 0), Pacific(9, 0), Pacific(14, 0)>>

\* a tie: the slots 30 minutes after and before the request keep the order
\* the calendar gave them
TieKeepsOrder ==
    /\ TargetedMode
    /\ RequestedInstant = Pacific(9, 30)
    /\ ProviderInstants = <<Pacific(10, 0), Pacific(9, 30), Pacific(9, 0)>>
    /\ ReturnedInstants = <<Pacific(9, 30), Pacific(10, 0), Pacific(9, 0)>>

\* C2: in targeted mode the returned slots are exactly the calendar's slots
\* that are at or after 00:00 of the provider-local day of the requested
\* instant and whose customer-local time of day is within 08:00..17:00, both
\* bounds included.
C2_TargetedFilter ==
    TargetedMode =>
        \A start \in {ProviderDayStart}, in \in {ProviderInstants}, out \in {ReturnedInstants} :
            \A u \in Range(in) \cup Range(out) :
                Count(out, u) = IF u >= start /\ InBusinessHours(u) THEN Count(in, u) ELSE 0

\* C2 happens: a slot before the requested time on the same provider day is
\* kept, a slot of the day before is dropped, a slot at 18:00 is dropped and
\* a slot at 17:00 is kept
C2_Witness ==
    /\ TargetedMode
    /\ resp.customer_tz = "America/Los_Angeles"
    /\ RequestedInstant = Pacific(9, 50)
    /\ ProviderInstants = <<Utc(27, 18, 0), Pacific(9, 0), Pacific(18, 0)>>
    /\ ReturnedInstants = <<Pacific(9, 0)>>

\* C3: in open mode the result is exactly the calendar's slots at or after
\* now whose customer-local time of day is within 08:00..17:00, in the
\* calendar's order; slots [09:00, 09:30, 18:00] with now before 09:00 and the
\* customer in the provider's zone give [09:00, 09:30].
C3_OpenFilterKeepsOrder ==
    OpenMode =>
        /\ ReturnedInstants
           = SelectSeq(ProviderInstants, LAMBDA u : u >= env.now /\ InBusinessHours(u))
        /\ (/\ ProviderInstants = <<Pacific(9, 0), Pacific(9, 30), Pacific(18, 0)>>
            /\ resp.customer_tz = "America/Los_Angeles"
            /\ env.now < Pacific(9, 0))
           => ReturnedInstants = <<Pacific(9, 0), Pacific(9, 30)>>

\* C3 happens: the example of the claim
C3_Witness ==
    /\ OpenMode
    /\ resp.customer_tz = "America/Los_Angeles"
    /\ ProviderInstants = <<Pacific(9, 0), Pacific(9, 30), Pacific(18, 0)>>
    /\ env.now < Pacific(9, 0)
    /\ ReturnedInstants = <<Pacific(9, 0), Pacific(9, 30)>>

\* a calendar whose slots are not in chronological order: the order is kept
UnsortedKeepsOrder ==
    /\ OpenMode
    /\ ProviderInstants = <<Pacific(14, 0), Pacific(9, 0), Pacific(10, 0)>>
    /\ env.now = Pacific(9, 15)
    /\ ReturnedInstants = <<Pacific(14, 0), Pacific(10, 0)>>

(***************************************************************************)
(* The customer's zone (C4, C5, C6, C7)                                    *)
(***************************************************************************)
Resolved == op = "resolve" /\ pc = "done"

\* the contact was asked for and its service answered
ContactAnswered == Resolved /\ req.contact_id # "" /\ env.contact.reach

\* the contact record came back with a "timezone" text
ContactHasTimezone ==
    /\ ContactAnswered
    /\ env.contact.status = 200
    /\ env.contact.body.shape = "object"
    /\ env.contact.body.contact.shape = "object"
    /\ env.contact.body.contact.timezone # <<>>

ContactTz == env.contact.body.contact.timezone

\* a text that, trimmed, starts with a sign and has at most 5 characters
OffsetLike(tz) ==
    \E a, b \in 1..Len(tz) :
        /\ a <= b /\ b - a + 1 <= 5
        /\ tz[a] \in {"+", "-"}
        /\ \A x \in 1..Len(tz) : (x < a \/ x > b) => tz[x] = " "
        /\ tz[b] # " "

\* the contact record carries a zone name that is not offset-like
ValidContactZone ==
    ContactHasTimezone /\ ~OffsetLike(ContactTz) /\ ContactTz \in {TzDenver, TzNewYork}

StateZone == get_timezone_for_state(req.state_code)

\* C4: with a contact id and a contact record that carries a valid zone name
\* that is not offset-like, resolve_customer_timezone returns that zone
\* whatever the state code, the location id and the location's answer are,
\* and the location is not asked.
C4_ContactZoneWins ==
    ValidContactZone =>
        /\ resp.returned /\ ~resp.raised
        /\ resp.zone = (IF ContactTz = TzDenver THEN "America/Denver" ELSE "America/New_York")
        /\ resp.calls = <<"contacts">>
        /\ \A l \in Lookups("l1", LocationResponses), st \in {"CA", "NY", "AZ"} :
              resolve_customer_timezone(req.contact_id, l.id, st, env.contact, l.res, <<>>).zone
              = resp.zone

\* C4 happens: the contact says America/Denver, the state is CA and the
\* location, which carries America/Chicago, is supplied
C4_Witness ==
    /\ ValidContactZone
    /\ ContactTz = TzDenver
    /\ req.state_code = "CA"
    /\ req.location_id # ""
    /\ env.location = Response(200, LocationBody([shape |-> "object", timezone |-> TzChicago]))
    /\ resp.zone = "America/Denver"

\* C5: an offset-like contact timezone is rejected and the zone of the state
\* table is returned instead; a timezone that starts with a sign and is
\* longer than 5 characters is not rejected by this rule.
C5_OffsetLikeFallsBack ==
    /\ (ContactHasTimezone /\ OffsetLike(ContactTz))
       => resp.returned /\ resp.zone = StateZone
    /\ ContactHasTimezone => (_is_offset_like_tz(ContactTz) <=> OffsetLike(ContactTz))

\* the part of C5 the code keeps: the rule itself, and the state table's zone
\* whenever the resolution returns
OffsetLikeRule ==
    ContactHasTimezone =>
        /\ _is_offset_like_tz(ContactTz) <=> OffsetLike(ContactTz)
        /\ (OffsetLike(ContactTz) /\ resp.returned) => resp.zone = StateZone
        /\ (ContactTz = TzPlus0530Colon) => ~_is_offset_like_tz(ContactTz)

\* "-03" with a location whose service is unreachable: no zone is returned
OffsetLikeRaises ==
    /\ ContactHasTimezone
    /\ ContactTz = TzMinus03
    /\ req.location_id # ""
    /\ ~env.location.reach
    /\ resp.raised

\* the contact step ended with a zone
ContactYieldedZone ==
    ContactStep(req.contact_id, env.contact, <<>>, <<>>).returned

\* C6: the result does not depend on the location's answer, and the location
\* is fetched exactly when a location id is supplied and the contact step
\* yielded no zone.
C6_LocationNeverDecides ==
    Resolved =>
        /\ \A res \in LocationResponses :
              req.location_id # "" =>
                  LET other == resolve_customer_timezone(req.contact_id, req.location_id,
                                   req.state_code, env.contact, res, <<>>)
                  IN  other.returned = resp.returned /\ other.zone = resp.zone
        /\ ("locations" \in Range(resp.calls))
           <=> (req.location_id # "" /\ ~ContactYieldedZone)

\* the part of C6 the code keeps: among the runs that return, the zone is
\* the same whatever the location answers, and it is never the location's
LocationIgnoredWhenReturning ==
    (Resolved /\ resp.returned) =>
        /\ \A res \in LocationResponses :
              LET other == resolve_customer_timezone(req.contact_id, req.location_id,
                               req.state_code, env.contact, res, <<>>)
              IN  other.returned => other.zone = resp.zone
        /\ resp.zone # "America/Chicago"

\* the contact's service is unreachable: the location is supplied and is not
\* fetched
LocationNotFetched ==
    /\ Resolved
    /\ req.contact_id # "" /\ ~env.contact.reach
    /\ req.location_id # ""
    /\ "locations" \notin Range(resp.calls)
    /\ resp.raised

\* a lookup of the resolution failed: the contact (unreachable, no success,
\* a body that is no JSON or has another shape, a timezone that is no zone
\* name) or, when it is asked, the location
ContactFailed ==
    /\ Resolved /\ req.contact_id # ""
    /\ \/ ~env.contact.reach
       \/ env.contact.status # 200
       \/ env.contact.body.shape # "object"
       \/ env.contact.body.contact.shape # "object"
       \/ env.contact.body.contact.timezone \notin {TzDenver, TzNewYork}

LocationFailed ==
    /\ Resolved /\ req.location_id # "" /\ ~ValidContactZone
    /\ \/ ~env.location.reach
       \/ env.location.status # 200
       \/ env.location.body.shape # "object"

\* C7: a lookup that fails makes the resolution fall through to the next
\* step and end with the zone of the state table; it never raises.
C7_LookupFailureFallsThrough ==
    /\ Resolved => ~resp.raised
    /\ (ContactFailed \/ LocationFailed) => (resp.returned /\ resp.zone = StateZone)

\* the failures the code does fall through on: a contact answer other than
\* 200, a body that is no JSON, a record without a timezone, a timezone that
\* is no zone name, and any answer of the location
FallsThroughWhenAnswered ==
    (/\ Resolved
     /\ req.contact_id # "" => /\ env.contact.reach
                               /\ env.contact.status = 200 =>
                                     /\ env.contact.body.shape \in {"object", "not_json"}
                                     /\ env.contact.body.contact.shape # "null"
     /\ req.location_id # "" /\ ~ValidContactZone => env.location.reach)
    => /\ resp.returned
       /\ ~ValidContactZone => resp.zone = StateZone

\* the contact's body is a JSON array: line 55 raises AttributeError
ArrayBodyRaises ==
    /\ Resolved
    /\ req.contact_id # ""
    /\ env.contact = Response(200, JsonArray)
    /\ resp.raised

(***************************************************************************)
(* Diagnostic logs and failing calendars (C8, C9)                          *)
(***************************************************************************)
Answered == op = "available" /\ pc = "done"

\* the service a log entry is about
LogTarget(entry) == IF entry.url[1] = "calendars" THEN "free-slots" ELSE entry.url[1]

LoggedCalls ==
    [x \in 1..Len(resp.dependent_requests) |-> LogTarget(resp.dependent_requests[x])]

\* C8: every response of get-available-times given after dependent calls
\* were made carries "dependent_requests" with one entry for each fetch
\* attempt, in the order contact, location, slot fetch.
C8_LogsAlwaysReturned ==
    (Answered /\ resp.calls # <<>>) =>
        /\ resp.kind = "json"
        /\ LoggedCalls = resp.calls

\* the part of C8 the code keeps: the responses the handler builds itself
\* after a call carry one entry a call, in call order
LogsMatchCallsWhenBuilt ==
    (Answered /\ resp.kind = "json") =>
        /\ LoggedCalls = resp.calls
        /\ \A x, y \in 1..Len(resp.calls) :
              (x < y /\ resp.calls[y] = "contacts") => FALSE
        /\ resp.calls[Len(resp.calls)] = "free-slots"

\* a requested_date_time that is not "%Y-%m-%d %I:%M %p", with slots in the
\* calendar: three calls were made and the response carries no log
MalformedRequestLosesLogs ==
    /\ Answered
    /\ req.requested_date_time = RequestedMalformed
    /\ resp.calls = <<"contacts", "locations", "free-slots">>
    /\ resp.kind = "unhandled"
    /\ resp.dependent_requests = <<>>

\* the calendar's slot fetch of get-available-times failed
SlotFetchFailed ==
    /\ Answered
    /\ "free-slots" \in Range(resp.calls)
    /\ (~env.slots.reach \/ env.slots.status # 200)

Booking == op = "book"

\* the calendar's slot fetch of book_leadconnector_appointment failed
CalendarFetchFailed ==
    /\ Booking
    /\ "free-slots" \in Range(resp.calls)
    /\ (~env[1].reach \/ env[1].status # 200)

\* C9: a failing slot fetch ends the request with status 500; in
\* get-available-times no matching runs and no slot is returned; in the
\* booking the appointment is posted only after the date was parsed and the
\* calendar's zone was detected, never after a failing slot fetch and never
\* after the 400 of a missing field or of a date that does not parse.
C9_FailingCalendarIsTerminal ==
    /\ SlotFetchFailed =>
          /\ resp.status = 500
          /\ ~resp.matched
          /\ resp.array = <<>> /\ resp.times_customer = <<>>
    /\ CalendarFetchFailed =>
          /\ pc = "done"
          /\ resp.status = 500
          /\ "appointments" \notin Range(resp.calls)
    /\ (Booking /\ "appointments" \in Range(resp.calls)) =>
          /\ resp.parsed.ok
          /\ resp.detected
          /\ resp.calls = <<"free-slots", "appointments">>
          /\ env[1].reach /\ env[1].status = 200
    /\ (Booking /\ resp.kind = "text" /\ resp.status = 400) =>
          /\ pc = "done"
          /\ resp.calls = <<>>

\* C9 happens: the calendar of a booking answers 500 after the date was
\* parsed, and the booking ends with 500 and without a POST
C9_Witness ==
    /\ CalendarFetchFailed
    /\ resp.parsed.ok
    /\ env[1] = Response(500, NotJson)
    /\ resp.status = 500
    /\ resp.calls = <<"free-slots">>

\* the slot fetch of get-available-times answers 500: the response is a 500
\* with no slot
SlotFetchAnswers500 ==
    /\ SlotFetchFailed
    /\ env.slots.reach
    /\ resp.kind = "json" /\ resp.status = 500

\* an appointment was posted
AppointmentPosted ==
    /\ Booking
    /\ resp.calls = <<"free-slots", "appointments">>
    /\ resp.status = 201

(***************************************************************************)
(* parse_human_datetime (C10)                                              *)
(***************************************************************************)
Parsed == op = "parse" /\ pc = "done"

\* "Friday November 28 2025 at 11:00 AM PST"
HumanAt11Repaired ==
    <<"F", "r", "i", "d", "a", "y", " ", "N", "o", "v", "e", "m", "b", "e", "r", " ", "2", "8", " ", "2", "0", "2", "5", " ", "a", "t", " ", "1", "1", ":", "0", "0", " ", "A", "M", " ", "P", "S", "T">>

\* "Friday November 28 2025 1100 AM PST"
Human1100Repaired ==
    <<"F", "r", "i", "d", "a", "y", " ", "N", "o", "v", "e", "m", "b", "e", "r", " ", "2", "8", " ", "2", "0", "2", "5", " ", "1", "1", "0", "0", " ", "A", "M", " ", "P", "S", "T">>

\* 2025-11-28T11:00:00 in America/Los_Angeles
ElevenPacific ==
    /\ resp.ok
    /\ resp.zone = "America/Los_Angeles"
    /\ resp.dt = Aware(Pacific(11, 0), -480)

\* C10 as the specification states it: both texts parse, to the same instant
\* 2025-11-28T11:00:00 in America/Los_Angeles.
C10_BothTextsSameInstant ==
    (Parsed /\ req \in {HumanAt11, Human1100}) => ElevenPacific

\* C10: "Friday, November 28th, 2025 at 11 AM PST" parses to
\* 2025-11-28T11:00:00 in America/Los_Angeles; "Friday November 28 2025
\* 1100AM PST" is repaired to "Friday November 28 2025 1100 AM PST", whose
\* date and time match no layout, and fails with the invalid-datetime error.
C10_SecondTextFails ==
    /\ (Parsed /\ req = HumanAt11) =>
          /\ ElevenPacific
          /\ Normalized(req) = HumanAt11Repaired
    /\ (Parsed /\ req = Human1100) =>
          /\ ~resp.ok
          /\ resp.error = "datetime"
          /\ Normalized(req) = Human1100Repaired

\* C10 happens: the second text was given and no instant came back
C10_Witness ==
    /\ Parsed
    /\ req = Human1100
    /\ ~resp.ok
    /\ resp.error = "datetime"

\* the first text was given and parsed
FirstTextParsed == Parsed /\ req = HumanAt11 /\ ElevenPacific

(***************************************************************************)
(* The trailing timezone token (C11)                                       *)
(***************************************************************************)
\* the 16 recognized tokens, 8 phrases and 8 abbreviations, with their zones
RecognizedTokens ==
    {
     [token |-> <<"P", "A", "C", "I", "F", "I", "C", " ", "S", "T", "A", "N", "D", "A", "R", "D", " ", "T", "I", "M", "E">>,
      zone |-> "America/Los_Angeles"],
     [token |-> <<"P", "A", "C", "I", "F", "I", "C", " ", "D", "A", "Y", "L", "I", "G", "H", "T", " ", "T", "I", "M", "E">>,
      zone |-> "America/Los_Angeles"],
     [token |-> <<"M", "O", "U", "N", "T", "A", "I", "N", " ", "S", "T", "A", "N", "D", "A", "R", "D", " ", "T", "I", "M", "E">>,
      zone |-> "America/Denver"],
     [token |-> <<"M", "O", "U", "N", "T", "A", "I", "N", " ", "D", "A", "Y", "L", "I", "G", "H", "T", " ", "T", "I", "M", "E">>,
      zone |-> "America/Denver"],
     [token |-> <<"C", "E", "N", "T", "R", "A", "L", " ", "S", "T", "A", "N", "D", "A", "R", "D", " ", "T", "I", "M", "E">>,
      zone |-> "America/Chicago"],
     [token |-> <<"C", "E", "N", "T", "R", "A", "L", " ", "D", "A", "Y", "L", "I", "G", "H", "T", " ", "T", "I", "M", "E">>,
      zone |-> "America/Chicago"],
     [token |-> <<"E", "A", "S", "T", "E", "R", "N", " ", "S", "T", "A", "N", "D", "A", "R", "D", " ", "T", "I", "M", "E">>,
      zone |-> "America/New_York"],
     [token |-> <<"E", "A", "S", "T", "E", "R", "N", " ", "D", "A", "Y", "L", "I", "G", "H", "T", " ", "T", "I", "M", "E">>,
      zone |-> "America/New_York"],
     [token |-> <<"P", "S", "T">>,
      zone |-> "America/Los_Angeles"],
     [token |-> <<"P", "D", "T">>,
      zone |-> "America/Los_Angeles"],
     [token |-> <<"M", "S", "T">>,
      zone |-> "America/Denver"],
     [token |-> <<"M", "D", "T">>,
      zone |-> "America/Denver"],
     [token |-> <<"C", "S", "T">>,
      zone |-> "America/Chicago"],
     [token |-> <<"C", "D", "T">>,
      zone |-> "America/Chicago"],
     [token |-> <<"E", "S", "T">>,
      zone |-> "America/New_York"],
     [token |-> <<"E", "D", "T">>,
      zone |-> "America/New_York"]}

\* the text s ends, whatever the case of its letters, with the token t
EndsWith(s, t) ==
    /\ Len(t) <= Len(s)
    /\ \A k \in 1..Len(t) : Up(s[Len(s) - Len(t) + k]) = t[k]

EndsWithToken(s) == \E t \in RecognizedTokens : EndsWith(s, t.token)

\* the zones of the tokens s ends with
EndingZones(s) == {t.zone : t \in {u \in RecognizedTokens : EndsWith(s, u.token)}}

\* parse_human_datetime raised the missing-timezone error: no instant, no zone
MissingTimezone(r) == ~r.ok /\ r.error = "timezone" /\ r.zone = "" /\ r.dt = NoInstant

\* C11: for a text whose repaired form does not end with one of the 16
\* tokens (compared without case), parse_human_datetime returns no instant
\* and raises the missing-timezone error, with no zone taken by default: an
\* instant is returned only in the zone of a token the repaired text ends
\* with, a token elsewhere in the text is not recognized, and the booking
\* answers 400 without calling any service.
C11_NoTokenNoInstant ==
    /\ Parsed =>
          \A s \in {Normalized(req)} :
              /\ ~EndsWithToken(s) => MissingTimezone(resp)
              /\ resp.ok => resp.zone \in EndingZones(s)
              /\ EndsWithToken(s) => resp.error # "timezone"
    /\ (Booking /\ pc # "parse") =>
          \A s \in {Normalized(req.proposed_datetime)} :
              (req.shape = "object" /\ RequiredFieldsPresent(req) /\ ~EndsWithToken(s)) =>
                  /\ MissingTimezone(resp.parsed)
                  /\ resp.kind = "text" /\ resp.status = 400
                  /\ resp.calls = <<>>
                  /\ pc = "done"

\* C11 happens: "PST Friday November 28 2025 at 11 AM" has its token at the
\* front and gets the missing-timezone error
C11_Witness ==
    /\ Parsed
    /\ req = HumanZoneFirst
    /\ ~EndsWithToken(Normalized(req))
    /\ MissingTimezone(resp)

\* a text that ends with "UTC" gets the missing-timezone error
UnknownZoneRejected ==
    /\ Parsed
    /\ EndsWith(req, <<"U", "T", "C">>)
    /\ Len(req) > 3
    /\ MissingTimezone(resp)

\* a text that ends with "eastern daylight time" is parsed in America/New_York
LowerCaseTokenParsed ==
    /\ Parsed
    /\ EndsWith(req, <<"E", "A", "S", "T", "E", "R", "N", " ", "D", "A", "Y", "L", "I", "G", "H", "T", " ", "T", "I", "M", "E">>)
    /\ req[Len(req)] = "e"
    /\ resp.ok
    /\ resp.zone = "America/New_York"

\* a booking whose date has no token was answered 400
BookingWithoutToken ==
    /\ Booking
    /\ req.shape = "object"
    /\ req.proposed_datetime = HumanNoZone
    /\ resp.status = 400
    /\ MissingTimezone(resp.parsed)

(***************************************************************************)
(* The appointment payload (C12)                                           *)
(***************************************************************************)
\* a payload was built (lines 197-217)
PayloadBuilt == Booking /\ "appointments" \in Range(resp.calls)

\* the fields of an ISO-8601 text are a date and a time of day
WellFormed(iso) ==
    /\ iso.mo \in 1..12
    /\ iso.d \in 1..DaysInMonth(iso.y, iso.mo)
    /\ iso.h \in 0..23
    /\ iso.mi \in 0..59

\* the instant an ISO-8601 text names, in minutes since 1970 UTC
InstantOf(iso) ==
    DaysFromCivil(iso.y, iso.mo, iso.d) * MinutesPerDay + iso.h * 60 + iso.mi - iso.off

\* the offset of the first slot the calendar answered with
CalendarOffset == provider_slots(env[1].body.entries)[1].off

\* C12: in every payload the booking builds, endTime is the instant 30
\* minutes after startTime and has the UTC offset of startTime, which is the
\* calendar's, for every requested instant and every calendar offset; a
\* duration in the request changes nothing.
C12_EndIsStartPlusThirty ==
    PayloadBuilt =>
        \A start \in {resp.payload.startTime}, end \in {resp.payload.endTime} :
            /\ WellFormed(start) /\ WellFormed(end)
            /\ InstantOf(end) = InstantOf(start) + 30
            /\ end.off = start.off
            /\ start.off = CalendarOffset
            /\ InstantOf(start) = resp.parsed.dt.utc

\* C12 happens: 10 AM PST of 31 December 2025 was asked for, with a duration
\* of 60 in the request and a calendar at UTC+05:30, and the payload goes
\* from 23:30 to 00:00 of 1 January 2026 at +05:30
C12_Witness ==
    /\ PayloadBuilt
    /\ req.duration = "60"
    /\ resp.payload.startTime
       = [y |-> 2025, mo |-> 12, d |-> 31, h |-> 23, mi |-> 30, off |-> 330]
    /\ resp.payload.endTime
       = [y |-> 2026, mo |-> 1, d |-> 1, h |-> 0, mi |-> 0, off |-> 330]

\* a calendar at UTC+05:30 and 10 AM PST of 28 February 2028: the payload
\* ends at 00:00 of the leap day
PayloadEndsOnLeapDay ==
    /\ PayloadBuilt
    /\ resp.parsed.zone = "America/Los_Angeles"
    /\ resp.payload.startTime
       = [y |-> 2028, mo |-> 2, d |-> 28, h |-> 23, mi |-> 30, off |-> 330]
    /\ resp.payload.endTime
       = [y |-> 2028, mo |-> 2, d |-> 29, h |-> 0, mi |-> 0, off |-> 330]

\* 2 AM of the day daylight time begins, read as standard time, with a
\* calendar at UTC-08:00: the payload goes from 02:00 to 02:30
PayloadInSkippedHour ==
    /\ PayloadBuilt
    /\ resp.payload.startTime
       = [y |-> 2026, mo |-> 3, d |-> 8, h |-> 2, mi |-> 0, off |-> -480]
    /\ resp.payload.endTime
       = [y |-> 2026, mo |-> 3, d |-> 8, h |-> 2, mi |-> 30, off |-> -480]

\* a calendar at UTC-03:00 and 12 PM CDT of 1 July 2025: the payload is at
\* -03:00
PayloadInCalendarZone ==
    /\ PayloadBuilt
    /\ resp.parsed.zone = "America/Chicago"
    /\ resp.payload.startTime
       = [y |-> 2025, mo |-> 7, d |-> 1, h |-> 14, mi |-> 0, off |-> -180]
    /\ resp.payload.endTime
       = [y |-> 2025, mo |-> 7, d |-> 1, h |-> 14, mi |-> 30, off |-> -180]

====
